---------------------------- MODULE Spec2Model ----------------------------
(***************************************************************************)
(* Model of streamlit_app.py: the Streamlit script that uploads a fundus   *)
(* image, posts it to {server_url}/predict and renders the answer.         *)
(*                                                                         *)
(* Python strings are sequences of one-character strings, so that          *)
(* rstrip, startswith, lower, `in`, float() and the f-string formats are   *)
(* computed character by character.  An Optional is a sequence of length   *)
(* 0 (None) or 1 (<<x>>).                                                  *)
(***************************************************************************)
EXTENDS Integers, Sequences, FiniteSets, TLC

VARIABLES
    requests_ok,   \* the module-level `requests` is not None (import succeeded)
    server_url,    \* value of the sidebar text input
    session_url,   \* st.session_state["server_url"]
    uploaded,      \* the file uploader holds a file
    analyze,       \* value of the Analyze button in the current script run
    pc,            \* "idle": script run finished; "posting": inside requests.post
    posts,         \* calls of requests.post made by the current script run
    url,           \* Optional: the URL handed to requests.post by this run
    net,           \* Optional: what requests.post produced in this run
    ret,           \* Optional: the (data, err) pair post_predict returned
    fields,        \* Optional: classification/detail/ratio/annotated_url extracted
    view,          \* what the main area shows at the end of the run
    message,       \* Optional: text of st.error
    badge,         \* CSS class of the classification badge ("" when none)
    ratio_text,    \* Optional: text of the Cup-to-Disc Ratio KPI
    image,         \* Optional: URL given to st.image for the annotated image
    image_warning  \* st.warning("Annotated image not available from server.")

vars == << requests_ok, server_url, session_url, uploaded, analyze, pc, posts, url,
           net, ret, fields, view, message, badge, ratio_text, image, image_warning >>

---------------------------------------------------------------------------
(* Bounds of the model.                                                    *)

\* most trailing slashes typed after a base URL
MaxSlashes == 2
\* most keys present in a JSON object body
MaxKeys == 2
\* most fragments concatenated into a classification string
MaxFrags == 2

---------------------------------------------------------------------------
(* String literals of the source.                                          *)

PRIMARY_URL_DEFAULT ==
    << "h", "t", "t", "p", "s", ":", "/", "/", "d", "o", "m", "i", "n", "a", "n", "t", "-",
       "u", "s", "u", "a", "l", "l", "y", "-", "o", "y", "s", "t", "e", "r", ".", "n", "g",
       "r", "o", "k", "-", "f", "r", "e", "e", ".", "a", "p", "p" >>

MSG_NO_REQUESTS ==
    << "P", "y", "t", "h", "o", "n", " ", "'", "r", "e", "q", "u", "e", "s", "t", "s", "'",
       " ", "p", "a", "c", "k", "a", "g", "e", " ", "i", "s", " ", "n", "o", "t", " ", "i",
       "n", "s", "t", "a", "l", "l", "e", "d", ".", " ", "R", "u", "n", ":", " ", "p", "i",
       "p", " ", "i", "n", "s", "t", "a", "l", "l", " ", "-", "r", " ", "r", "e", "q", "u",
       "i", "r", "e", "m", "e", "n", "t", "s", ".", "t", "x", "t" >>

MSG_FAILED_PREFIX ==
    << "F", "a", "i", "l", "e", "d", " ", "t", "o", " ", "r", "e", "a", "c", "h", " ", "s",
       "e", "r", "v", "e", "r", ":", " " >>

MSG_DETAIL_SEP ==
    << "\n", "D", "e", "t", "a", "i", "l", ":", " " >>

MSG_HTTP_PREFIX ==
    << "S", "e", "r", "v", "e", "r", " ", "r", "e", "t", "u", "r", "n", "e", "d", " ", "H",
       "T", "T", "P", " " >>

MSG_UNEXPECTED ==
    << "U", "n", "e", "x", "p", "e", "c", "t", "e", "d", " ", "r", "e", "s", "p", "o", "n",
       "s", "e", " ", "f", "r", "o", "m", " ", "s", "e", "r", "v", "e", "r", " ", "(", "n",
       "o", "t", " ", "J", "S", "O", "N", " ", "o", "b", "j", "e", "c", "t", ")", "." >>

MSG_NO_URL ==
    << "P", "l", "e", "a", "s", "e", " ", "p", "r", "o", "v", "i", "d", "e", " ", "a", " ",
       "v", "a", "l", "i", "d", " ", "C", "o", "l", "a", "b", " ", "S", "e", "r", "v", "e",
       "r", " ", "U", "R", "L", " ", "i", "n", " ", "t", "h", "e", " ", "s", "i", "d", "e",
       "b", "a", "r", "." >>

S_predict == << "/", "p", "r", "e", "d", "i", "c", "t" >>
S_http == << "h", "t", "t", "p" >>
S_non == << "n", "o", "n" >>
S_suspect == << "s", "u", "s", "p", "e", "c", "t" >>
S_Unknown == << "U", "n", "k", "n", "o", "w", "n" >>
S_NA == << "N", "/", "A" >>
S_None == << "N", "o", "n", "e" >>
S_True == << "T", "r", "u", "e" >>
S_False == << "F", "a", "l", "s", "e" >>
\* the one-character string U+2014 (em dash), written as a single token
EM_DASH == << "EMDASH" >>

None == << >>
Some(x) == << x >>

---------------------------------------------------------------------------
(* Python str methods.                                                     *)

UpperChars == << "A", "B", "C", "D", "E", "F", "G", "H", "I", "J", "K", "L", "M",
                 "N", "O", "P", "Q", "R", "S", "T", "U", "V", "W", "X", "Y", "Z" >>
LowerChars == << "a", "b", "c", "d", "e", "f", "g", "h", "i", "j", "k", "l", "m",
                 "n", "o", "p", "q", "r", "s", "t", "u", "v", "w", "x", "y", "z" >>
DigitChars == << "0", "1", "2", "3", "4", "5", "6", "7", "8", "9" >>
Whitespace == { " ", "\n", "\t" }

LowerChar(c) ==
    IF \E i \in 1..26 : UpperChars[i] = c
    THEN LowerChars[CHOOSE i \in 1..26 : UpperChars[i] = c]
    ELSE c

\* str.lower()
Lower(s) == [i \in 1..Len(s) |-> LowerChar(s[i])]

\* str.startswith(p)
StartsWith(s, p) == Len(p) <= Len(s) /\ SubSeq(s, 1, Len(p)) = p

\* str.endswith(p)
EndsWith(s, p) == Len(p) <= Len(s) /\ SubSeq(s, Len(s) - Len(p) + 1, Len(s)) = p

\* `w in s` for strings: w is a substring of s
RECURSIVE In(_, _)
In(w, s) ==
    IF Len(w) > Len(s) THEN FALSE
    ELSE IF StartsWith(s, w) THEN TRUE
    ELSE In(w, Tail(s))

\* str.rstrip(chars): drop every trailing character that is in chars
RECURSIVE RStrip(_, _)
RStrip(s, chars) ==
    IF s # << >> /\ s[Len(s)] \in chars
    THEN RStrip(SubSeq(s, 1, Len(s) - 1), chars)
    ELSE s

RECURSIVE LStrip(_, _)
LStrip(s, chars) ==
    IF s # << >> /\ s[1] \in chars THEN LStrip(Tail(s), chars) ELSE s

\* str.strip(): drop leading and trailing whitespace
Strip(s) == LStrip(RStrip(s, Whitespace), Whitespace)

---------------------------------------------------------------------------
(* Numbers.  A float is held in thousandths (0.625 is 625); the model's    *)
(* inputs have at most three decimals and no exponent, and a third         *)
(* decimal of 5 only where the value is exact in binary (x.125, x.375,     *)
(* x.625, x.875), so that ".2f" rounds half to even on the decimal value.  *)

IsDigit(c) == \E d \in 1..10 : DigitChars[d] = c
DigitVal(c) == (CHOOSE d \in 1..10 : DigitChars[d] = c) - 1
AllDigits(s) == \A i \in 1..Len(s) : IsDigit(s[i])

RECURSIVE NatVal(_)
NatVal(s) ==
    IF s = << >> THEN 0
    ELSE NatVal(SubSeq(s, 1, Len(s) - 1)) * 10 + DigitVal(s[Len(s)])

\* str(n) of a natural number
RECURSIVE NatStr(_)
NatStr(n) ==
    IF n < 10 THEN << DigitChars[n + 1] >>
    ELSE NatStr(n \div 10) \o << DigitChars[(n % 10) + 1] >>

\* str(n) of an int
IntStr(n) == IF n < 0 THEN << "-" >> \o NatStr(0 - n) ELSE NatStr(n)

Pow10(k) == CASE k = 0 -> 1 [] k = 1 -> 10 [] k = 2 -> 100 [] OTHER -> 1000

\* float(s) of a str: surrounding whitespace is ignored; an optional sign, digits
\* and at most one point with a digit on either side.  <<m>> with m in
\* thousandths, or None where float() raises ValueError.
ParseFloat(s) ==
    LET t == Strip(s)
        signed == t # << >> /\ t[1] \in { "+", "-" }
        body == IF signed THEN Tail(t) ELSE t
        dots == { i \in 1..Len(body) : body[i] = "." }
        p == CHOOSE i \in dots : TRUE
        ip == IF dots = {} THEN body ELSE SubSeq(body, 1, p - 1)
        fp == IF dots = {} THEN << >> ELSE SubSeq(body, p + 1, Len(body))
        mag == NatVal(ip) * 1000 + NatVal(fp) * Pow10(3 - Len(fp))
    IN  IF /\ Cardinality(dots) <= 1
           /\ AllDigits(ip) /\ AllDigits(fp)
           /\ Len(ip) + Len(fp) > 0
           /\ Len(fp) <= 3
        THEN Some(IF signed /\ t[1] = "-" THEN 0 - mag ELSE mag)
        ELSE None

\* f"{x:.2f}" of a float held in thousandths
Format2f(m) ==
    LET a == IF m < 0 THEN 0 - m ELSE m
        q == a \div 10
        r == a % 10
        h == IF r > 5 \/ (r = 5 /\ q % 2 = 1) THEN q + 1 ELSE q
    IN  (IF m < 0 THEN << "-" >> ELSE << >>)
        \o NatStr(h \div 100)
        \o << ".", DigitChars[((h \div 10) % 10) + 1], DigitChars[(h % 10) + 1] >>

\* repr of a float held in thousandths: shortest decimal, at least one decimal
FloatStr(m) ==
    LET a == IF m < 0 THEN 0 - m ELSE m
        f == a % 1000
        d3 == << DigitChars[(f \div 100) + 1], DigitChars[((f \div 10) % 10) + 1],
                 DigitChars[(f % 10) + 1] >>
        frac == IF f % 100 = 0 THEN SubSeq(d3, 1, 1)
                ELSE IF f % 10 = 0 THEN SubSeq(d3, 1, 2)
                ELSE d3
    IN  (IF m < 0 THEN << "-" >> ELSE << >>) \o NatStr(a \div 1000) \o << "." >> \o frac

---------------------------------------------------------------------------
(* JSON values as Python holds them after resp.json().  Every value is a   *)
(* record of the same shape: t is the type, b the bool, n the int (or the  *)
(* float in thousandths, or the length of a list or dict), s the string.   *)
(* A non-empty list is [1] and a non-empty dict is {'a': 1}.               *)

JV(t, b, n, s) == [t |-> t, b |-> b, n |-> n, s |-> s]
JNull == JV("null", FALSE, 0, << >>)
JBool(b) == JV("bool", b, 0, << >>)
JInt(i) == JV("int", FALSE, i, << >>)
JFloat(m) == JV("float", FALSE, m, << >>)
JStr(s) == JV("str", FALSE, 0, s)
JList(k) == JV("list", FALSE, k, << >>)
JDict(k) == JV("dict", FALSE, k, << >>)
\* marks a key that the object does not hold
Absent == JV("absent", FALSE, 0, << >>)

Keys == { "classification", "final_classification", "detail", "details",
          "ratio", "cdr", "annotated_image_url", "error" }

\* bool(v)
Truthy(v) ==
    CASE v.t = "null" -> FALSE
      [] v.t = "bool" -> v.b
      [] v.t \in { "int", "float" } -> v.n # 0
      [] v.t = "str" -> v.s # << >>
      [] OTHER -> v.n > 0

\* str(v), as an f-string formats v
PyStr(v) ==
    CASE v.t = "null" -> S_None
      [] v.t = "bool" -> IF v.b THEN S_True ELSE S_False
      [] v.t = "int" -> IntStr(v.n)
      [] v.t = "float" -> FloatStr(v.n)
      [] v.t = "str" -> v.s
      [] v.t = "list" -> IF v.n = 0 THEN << "[", "]" >> ELSE << "[", "1", "]" >>
      [] OTHER -> IF v.n = 0 THEN << "{", "}" >>
                  ELSE << "{", "'", "a", "'", ":", " ", "1", "}" >>

\* float(v) inside try/except: <<thousandths>>, or None where float() raises
PyFloat(v) ==
    CASE v.t = "bool" -> Some(IF v.b THEN 1000 ELSE 0)
      [] v.t = "int" -> Some(v.n * 1000)
      [] v.t = "float" -> Some(v.n)
      [] v.t = "str" -> ParseFloat(v.s)
      [] OTHER -> None

\* a or b
PyOr(a, b) == IF Truthy(a) THEN a ELSE b

\* data.get(k)
Get(obj, k) == IF obj[k] = Absent THEN JNull ELSE obj[k]

\* data.get(k, default)
GetDefault(obj, k, default) == IF obj[k] = Absent THEN default ELSE obj[k]

---------------------------------------------------------------------------
(* A response body is text that is not JSON ("raw"), a JSON value that is  *)
(* not an object ("value"), or a JSON object ("object").                   *)

EmptyObj == [k \in Keys |-> Absent]
RawBody == [kind |-> "raw", val |-> JNull, obj |-> EmptyObj]
ValueBody(v) == [kind |-> "value", val |-> v, obj |-> EmptyObj]
ObjectBody(o) == [kind |-> "object", val |-> JNull, obj |-> o]
\* the Python value None held in `data`
NoneData == ValueBody(JNull)

IsDict(d) == d.kind = "object"

\* resp.json() inside try/except: the parsed value, None where parsing raises
resp_json(body) == IF body.kind = "raw" THEN NoneData ELSE body

\* resp.ok of the requests library: the status is not a 4xx or 5xx
Is2xx(status) == 200 <= status /\ status <= 299
resp_ok(status) == ~(400 <= status /\ status < 600)

\* base_url.rstrip("/") + "/predict"
StripOneSlash(base_url) ==
    (IF base_url # << >> /\ base_url[Len(base_url)] = "/"
     THEN SubSeq(base_url, 1, Len(base_url) - 1) ELSE base_url) \o S_predict
BuildUrl(base_url) == RStrip(base_url, { "/" }) \o S_predict

\* the (json_data, error_message) pair
Pair(data, err) == [data |-> data, err |-> err]

\* f"{data.get('error')}\nDetail: {data.get('detail', 'N/A')}"
ServerErrorMessageNoDefault(obj) ==
    PyStr(Get(obj, "error")) \o MSG_DETAIL_SEP \o PyStr(Get(obj, "detail"))
ServerErrorMessage(obj) ==
    PyStr(Get(obj, "error")) \o MSG_DETAIL_SEP
        \o PyStr(GetDefault(obj, "detail", JStr(S_NA)))

\* post_predict, given what requests.post does: n.fault is Some(str(e)) when it
\* raises a RequestException, else n.status and n.body are the response.
post_predict_unchecked(rok, base_url, n) ==
    IF ~rok THEN Pair(None, Some(MSG_NO_REQUESTS))
    ELSE IF n.fault # None THEN Pair(None, Some(MSG_FAILED_PREFIX \o n.fault[1]))
    ELSE LET data == resp_json(n.body)
         IN  IF ~resp_ok(n.status)
             THEN IF IsDict(data) /\ Truthy(Get(data.obj, "error"))
                  THEN Pair(None, Some(PyStr(Get(data.obj, "error")) \o MSG_DETAIL_SEP
                            \o PyStr(GetDefault(data.obj, "detail", JStr(S_NA)))))
                  ELSE Pair(None, Some(MSG_HTTP_PREFIX \o IntStr(n.status)))
             ELSE Pair(IF data = NoneData THEN None ELSE Some(data), None)
post_predict(rok, base_url, n) ==
    IF ~rok THEN Pair(None, Some(MSG_NO_REQUESTS))
    ELSE IF n.fault # None THEN Pair(None, Some(MSG_FAILED_PREFIX \o n.fault[1]))
    ELSE LET data == resp_json(n.body)
         IN  IF ~resp_ok(n.status)
             THEN IF IsDict(data) /\ Truthy(Get(data.obj, "error"))
                  THEN Pair(None, Some(ServerErrorMessage(data.obj)))
                  ELSE Pair(None, Some(MSG_HTTP_PREFIX \o IntStr(n.status)))
             ELSE IF ~IsDict(data)
                  THEN Pair(None, Some(MSG_UNEXPECTED))
                  ELSE Pair(Some(data), None)

\* classification_badge: the CSS class chosen, or raised where .lower() is
\* called on a value that is not a str (AttributeError)
Badge(raised, cls) == [raised |-> raised, cls |-> cls]
classification_badge_suspect_first(text) ==
    IF Truthy(text) /\ text.t # "str" THEN Badge(TRUE, "")
    ELSE LET t == Strip(Lower(IF Truthy(text) THEN text.s ELSE << >>))
         IN  IF In(S_suspect, t) THEN Badge(FALSE, "badge-amber")
             ELSE IF In(S_non, t) THEN Badge(FALSE, "badge-green")
             ELSE Badge(FALSE, "badge-red")
classification_badge(text) ==
    IF Truthy(text) /\ text.t # "str" THEN Badge(TRUE, "")
    ELSE LET t == Strip(Lower(IF Truthy(text) THEN text.s ELSE << >>))
         IN  IF In(S_non, t) THEN Badge(FALSE, "badge-green")
             ELSE IF In(S_suspect, t) THEN Badge(FALSE, "badge-amber")
             ELSE Badge(FALSE, "badge-red")

---------------------------------------------------------------------------
(* The main UI, lines 185-254: one script run, given the button value, the *)
(* widget values and what requests.post does if the run reaches it.        *)

\* a or b on the two alternative keys of a field
FieldFirstPresent(obj, first, second) ==
    IF obj[first] # Absent THEN obj[first] ELSE Get(obj, second)
Field(obj, first, second) == PyOr(Get(obj, first), Get(obj, second))

\* the four values read from the response
Extract(obj) ==
    [ classification |-> Field(obj, "classification", "final_classification"),
      detail |-> Field(obj, "detail", "details"),
      ratio |-> Field(obj, "ratio", "cdr"),
      annotated_url |-> Get(obj, "annotated_image_url") ]

\* ratio_val: float(ratio) if ratio is not None else None, None on an exception
RatioVal(ratio) == IF ratio # JNull THEN PyFloat(ratio) ELSE None

\* ratio_text
RatioText(ratio) ==
    IF RatioVal(ratio) # None THEN Format2f(RatioVal(ratio)[1])
    ELSE IF ratio \notin { JNull, JStr(<< >>), JList(0) } THEN Strip(PyStr(ratio))
    ELSE EM_DASH

\* isinstance(annotated_url, str) and annotated_url.startswith("http")
ShowsImage(annotated_url) ==
    annotated_url.t = "str" /\ StartsWith(annotated_url.s, S_http)

\* the run reaches requests.post
DispatchesNoClientCheck(an, up, surl, rok) == an /\ up /\ surl # << >>
Dispatches(an, up, surl, rok) == an /\ up /\ surl # << >> /\ rok

Out(v, r, f, m, b, rt, img, w) ==
    [ view |-> v, ret |-> r, fields |-> f, message |-> m, badge |-> b,
      ratio_text |-> rt, image |-> img, image_warning |-> w ]

\* the else branch of `if err:`, lines 196-251
RenderResult(r) ==
    IF r.data = None
    THEN \* data.get on None
         Out("fault", Some(r), None, None, "", None, None, FALSE)
    ELSE LET f == Extract(r.data[1].obj)
             cb == classification_badge(PyOr(f.classification, JStr(S_Unknown)))
         IN  IF cb.raised
             THEN Out("fault", Some(r), Some(f), None, "", None, None, FALSE)
             ELSE Out("result", Some(r), Some(f), None, cb.cls,
                      Some(RatioText(f.ratio)),
                      IF ShowsImage(f.annotated_url)
                      THEN Some(f.annotated_url.s) ELSE None,
                      ~ShowsImage(f.annotated_url))

Main(an, up, surl, rok, n) ==
    IF an /\ up
    THEN IF surl = << >>
         THEN Out("url_error", None, None, Some(MSG_NO_URL), "", None, None, FALSE)
         ELSE LET r == post_predict(rok, surl, n)
              IN  IF r.err # None /\ r.err[1] # << >>
                  THEN Out("error", Some(r), None, r.err, "", None, None, FALSE)
                  ELSE RenderResult(r)
    ELSE IF ~up
         THEN Out("info", None, None, None, "", None, None, FALSE)
         ELSE Out("preview", None, None, None, "", None, None, FALSE)

---------------------------------------------------------------------------
(* Inputs.                                                                 *)

RECURSIVE Slashes(_)
Slashes(k) == IF k = 0 THEN << >> ELSE << "/" >> \o Slashes(k - 1)

S_host == << "h", "t", "t", "p", ":", "/", "/", "h" >>
BaseHosts == { << >>, S_host, << " " >> }
\* what the user may type into the sidebar text input
UrlInputs == { h \o Slashes(k) : h \in BaseHosts, k \in 0..MaxSlashes }

\* requests.post sends only to http:// and https:// URLs (else MissingSchema or
\* InvalidSchema, both RequestException)
Sendable(u) ==
    \/ StartsWith(u, << "h", "t", "t", "p", ":", "/", "/" >>)
    \/ StartsWith(u, << "h", "t", "t", "p", "s", ":", "/", "/" >>)

S_timeout == << "t", "i", "m", "e", "d", " ", "o", "u", "t" >>
FaultTexts == { S_timeout, << >> }
Statuses == { 200, 304, 404, 503 }

S_Glaucoma == << "G", "l", "a", "u", "c", "o", "m", "a" >>
S_unavailable == << "m", "o", "d", "e", "l", " ", "u", "n", "a", "v", "a", "i", "l", "a",
                    "b", "l", "e" >>
S_OOM == << "O", "O", "M" >>
S_img == << "h", "t", "t", "p", ":", "/", "/", "x", "/", "i", ".", "p", "n", "g" >>
S_imgs == << "h", "t", "t", "p", "s", ":", "/", "/", "x", "/", "i", ".", "p", "n", "g" >>
S_httpx == << "h", "t", "t", "p", "x", ":", "/", "/", "x" >>
S_ftp == << "f", "t", "p", ":", "/", "/", "x", "/", "i", ".", "p", "n", "g" >>

\* the values a key may hold in a response
Dom(k) ==
    CASE k = "classification" -> { JStr(S_Glaucoma), JStr(<< >>), JNull, JInt(5) }
      [] k = "final_classification" -> { JStr(S_non), JStr(<< >>) }
      [] k = "detail" -> { JStr(S_OOM), JStr(<< >>), JNull }
      [] k = "details" -> { JStr(<< "x" >>), JNull }
      [] k = "ratio" -> { JInt(0), JFloat(625), JStr(<< "0", ".", "6" >>),
                          JStr(<< "a", "b", "c" >>), JStr(<< >>), JNull, JList(0) }
      [] k = "cdr" -> { JFloat(700), JStr(<< "0" >>), JNull }
      [] k = "annotated_image_url" ->
            { JStr(S_img), JStr(S_imgs), JStr(S_httpx), JStr(S_ftp), JNull, JInt(5) }
      [] OTHER -> { JStr(S_unavailable), JStr(<< >>), JNull, JInt(7) }

\* the objects over the keys ks with at most n keys present
RECURSIVE Objs(_, _)
Objs(ks, n) ==
    IF ks = {} \/ n = 0 THEN { EmptyObj }
    ELSE LET k == CHOOSE x \in ks : TRUE
         IN  Objs(ks \ { k }, n)
             \cup { [o EXCEPT ![k] = v] : o \in Objs(ks \ { k }, n - 1), v \in Dom(k) }

\* classification strings: up to MaxFrags fragments in a row
Frags == { S_Glaucoma \o << " " >>, S_suspect, << "S", "U", "S", "P", "E", "C", "T" >>,
           S_non, << "N", "o", "n", "-" >>, << "n", "o" >>, << "n" >> }
RECURSIVE FragStrings(_)
FragStrings(n) ==
    IF n = 0 THEN { << >> }
    ELSE FragStrings(n - 1) \cup { s \o f : s \in FragStrings(n - 1), f \in Frags }

Bodies ==
    { RawBody, ValueBody(JNull), ValueBody(JList(1)), ValueBody(JStr(S_OOM)) }
    \cup { ObjectBody(o) : o \in Objs(Keys, MaxKeys) }
    \cup { ObjectBody([EmptyObj EXCEPT !["classification"] = JStr(s)]) :
             s \in FragStrings(MaxFrags) }

Fault(text) == [fault |-> Some(text), status |-> 0, body |-> RawBody]
Response(status, body) == [fault |-> None, status |-> status, body |-> body]
NetOutcomes ==
    { Fault(t) : t \in FaultTexts } \cup { Response(s, b) : s \in Statuses, b \in Bodies }

---------------------------------------------------------------------------
(* The session: every widget interaction reruns the script from the top.   *)

\* a script run that ends without calling requests.post, or the rest of a run
\* once requests.post has returned or raised
Finish(an, up, surl, n) ==
    LET o == Main(an, up, surl, requests_ok, n)
    IN  /\ \* line 96
           session_url' = Strip(surl)
        /\ analyze' = an
        /\ pc' = "idle"
        /\ ret' = o.ret
        /\ fields' = o.fields
        /\ view' = o.view
        /\ message' = o.message
        /\ badge' = o.badge
        /\ ratio_text' = o.ratio_text
        /\ image' = o.image
        /\ image_warning' = o.image_warning

\* a script run with the button not pressed
Rerun(up, surl) ==
    /\ Finish(FALSE, up, surl, Fault(<< >>))
    /\ posts' = 0
    /\ url' = None
    /\ net' = None

Init ==
    /\ requests_ok \in BOOLEAN
    /\ server_url = PRIMARY_URL_DEFAULT
    /\ session_url = Strip(PRIMARY_URL_DEFAULT)
    /\ uploaded = FALSE
    /\ analyze = FALSE
    /\ pc = "idle"
    /\ posts = 0
    /\ url = None
    /\ net = None
    /\ ret = None
    /\ fields = None
    /\ view = "info"
    /\ message = None
    /\ badge = ""
    /\ ratio_text = None
    /\ image = None
    /\ image_warning = FALSE

\* the user edits the sidebar text input
SetServerUrl ==
    /\ pc = "idle"
    /\ \E u \in UrlInputs \cup { PRIMARY_URL_DEFAULT } :
          /\ u # server_url
          /\ server_url' = u
          /\ Rerun(uploaded, u)
    /\ UNCHANGED << requests_ok, uploaded >>

\* the user picks a file in the uploader
Upload ==
    /\ pc = "idle"
    /\ ~uploaded
    /\ uploaded' = TRUE
    /\ Rerun(TRUE, server_url)
    /\ UNCHANGED << requests_ok, server_url >>

\* the user removes the file
RemoveFile ==
    /\ pc = "idle"
    /\ uploaded
    /\ uploaded' = FALSE
    /\ Rerun(FALSE, server_url)
    /\ UNCHANGED << requests_ok, server_url >>

\* the user presses Analyze (disabled while no file is selected): the script runs
\* to its end, or into requests.post
ClickAnalyze ==
    /\ pc = "idle"
    /\ uploaded
    /\ IF Dispatches(TRUE, uploaded, server_url, requests_ok)
       THEN /\ pc' = "posting"
            /\ analyze' = TRUE
            /\ session_url' = Strip(server_url)
            /\ posts' = 1
            /\ url' = Some(BuildUrl(server_url))
            /\ net' = None
            /\ ret' = None
            /\ fields' = None
            /\ view' = "spinner"
            /\ message' = None
            /\ badge' = ""
            /\ ratio_text' = None
            /\ image' = None
            /\ image_warning' = FALSE
       ELSE /\ Finish(TRUE, uploaded, server_url, Fault(<< >>))
            /\ posts' = 0
            /\ url' = None
            /\ net' = None
    /\ UNCHANGED << requests_ok, server_url, uploaded >>

\* requests.post returns a response or raises; post_predict and the script finish
Respond ==
    /\ pc = "posting"
    /\ \E n \in NetOutcomes :
          /\ n.fault = None => Sendable(url[1])
          /\ net' = Some(n)
          /\ Finish(TRUE, uploaded, server_url, n)
    /\ UNCHANGED << requests_ok, server_url, uploaded, posts, url >>

Next == SetServerUrl \/ Upload \/ RemoveFile \/ ClickAnalyze \/ Respond

Spec == Init /\ [][Next]_vars

---------------------------------------------------------------------------
(* Properties.                                                             *)

\* the parsed response of the run, when post_predict returned a result
ResultObj == ret[1].data[1].obj
Received == net # None /\ net[1].fault = None
HasResult == ret # None /\ ret[1].data # None /\ ret[1].err = None
HasError == ret # None /\ ret[1].data = None /\ ret[1].err # None

\* C1: every return of post_predict is either (data, None) with data a JSON
\* object, or (None, error) with error a non-empty message; never both, never
\* neither.
C1_ExactlyOneOfResultOrError ==
    ret # None =>
        \/ /\ ret[1].data # None
           /\ ret[1].data[1].kind = "object"
           /\ ret[1].err = None
        \/ /\ ret[1].data = None
           /\ ret[1].err # None
           /\ Len(ret[1].err[1]) > 0
\* a transport fault whose description is empty still yields an error message
C1_Witness ==
    /\ net # None /\ net[1].fault = Some(<< >>)
    /\ ret # None /\ ret[1].data = None /\ ret[1].err # None

\* C2 as stated: once a response is received, a result is returned exactly when
\* the status is 2xx and the body is a JSON object; otherwise an error.
C2_ResultIffStatus2xxAndObject ==
    Received =>
        /\ HasResult <=> (Is2xx(net[1].status) /\ net[1].body.kind = "object")
        /\ HasError <=> ~(Is2xx(net[1].status) /\ net[1].body.kind = "object")
\* C2 amended: once a response is received, a result is returned exactly when
\* the status is not a 4xx/5xx error status and the body is a JSON object;
\* otherwise an error and no result.
C2_ResultIffNotErrorStatusAndObject ==
    Received =>
        LET good == /\ ~(net[1].status \in 400..599)
                    /\ net[1].body.kind = "object"
        IN  /\ HasResult <=> good
            /\ HasError <=> ~good
\* a 304 response with a JSON object body is returned as a result
C2_Witness ==
    /\ Received /\ net[1].status = 304 /\ net[1].body.kind = "object"
    /\ HasResult

\* the message is the error value, "\nDetail: ", then the detail value
Combines(msg, e, d) ==
    /\ Len(msg) = Len(e) + Len(MSG_DETAIL_SEP) + Len(d)
    /\ StartsWith(msg, e \o MSG_DETAIL_SEP)
    /\ EndsWith(msg, d)
StatesStatus(msg, status) ==
    /\ StartsWith(msg, MSG_HTTP_PREFIX)
    /\ NatVal(SubSeq(msg, Len(MSG_HTTP_PREFIX) + 1, Len(msg))) = status
    /\ Len(msg) = Len(MSG_HTTP_PREFIX) + 3
FailureReceived == Received /\ net[1].status \in 400..599 /\ ret # None
DetailOrNA(o) == IF o["detail"] = Absent THEN S_NA ELSE PyStr(o["detail"])

\* C3 as stated: on a failure status, a JSON object body holding an `error` key,
\* whatever its value, gives the combined message; every other body gives the
\* message stating the status code.
C3_ErrorKeyPresentCombines ==
    FailureReceived =>
        LET b == net[1].body
            msg == ret[1].err[1]
        IN  IF b.kind = "object" /\ b.obj["error"] # Absent
            THEN Combines(msg, PyStr(b.obj["error"]), DetailOrNA(b.obj))
            ELSE StatesStatus(msg, net[1].status)
\* C3 amended: on a failure status, a JSON object body whose `error` value is
\* truthy gives the combined message (detail "N/A" when absent); every other
\* body, an object whose `error` is absent or falsy included, gives the
\* message stating the status code.
C3_TruthyErrorCombines ==
    FailureReceived =>
        LET b == net[1].body
            msg == ret[1].err[1]
        IN  IF /\ b.kind = "object"
               /\ b.obj["error"] \notin { Absent, JNull, JStr(<< >>), JInt(0), JBool(FALSE) }
            THEN Combines(msg, PyStr(b.obj["error"]), DetailOrNA(b.obj))
            ELSE StatesStatus(msg, net[1].status)
\* a 503 whose body has a truthy error and no detail: the message ends in N/A
C3_Witness ==
    /\ FailureReceived /\ net[1].status = 503
    /\ net[1].body.kind = "object"
    /\ net[1].body.obj["error"] = JStr(S_unavailable)
    /\ net[1].body.obj["detail"] = Absent
    /\ EndsWith(ret[1].err[1], S_NA)

\* C4: a finished trigger cycle shows an inline error message or the result
\* view, never an unhandled exception.
C4_NoUnhandledFault ==
    (pc = "idle" /\ analyze) => view \in { "error", "url_error", "result" }

\* the ratio the backend returned: under `ratio`, else under `cdr`
Empties == { Absent, JNull, JStr(<< >>), JList(0) }
ReturnedRatio(o) == IF o["ratio"] \notin Empties THEN o["ratio"] ELSE o["cdr"]
Numeric(v) ==
    \/ v.t \in { "int", "float" }
    \/ v.t = "str" /\ ParseFloat(v.s) # None
NumericValue(v) == IF v.t = "int" THEN v.n * 1000 ELSE IF v.t = "float" THEN v.n
                   ELSE ParseFloat(v.s)[1]
\* text is digits, a point and exactly two digits, within half a hundredth of m
TwoDecimalsOf(text, m) ==
    /\ Len(text) >= 4
    /\ text[Len(text) - 2] = "."
    /\ AllDigits(SubSeq(text, Len(text) - 1, Len(text)))
    /\ ParseFloat(text) # None
    /\ ParseFloat(text)[1] - m \in -5..5

\* C5: a numeric ratio (zero and numeric strings included) is shown with two
\* decimals; a non-numeric non-empty one as its raw string; an absent or empty
\* one as the dash.
C5_RatioDisplay ==
    view = "result" =>
        LET r == ReturnedRatio(ResultObj)
            text == ratio_text[1]
        IN  IF r \in Empties THEN text = EM_DASH
            ELSE IF Numeric(r) THEN TwoDecimalsOf(text, NumericValue(r))
            ELSE text = PyStr(r)

\* w occurs in s, letter case ignored
HasCI(s, w) ==
    \E i \in 1..(Len(s) - Len(w) + 1) :
        \A j \in 1..Len(w) : LowerChar(s[i + j - 1]) = w[j]
\* the text handed to classification_badge in a rendered result
BadgeText == IF Truthy(fields[1].classification) THEN fields[1].classification.s
             ELSE S_Unknown

\* C6: the badge is green when the classification contains "non" in any case,
\* amber when it contains "suspect" and not "non", red otherwise; "Glaucoma
\* suspect" is amber and a missing classification is red.
C6_BadgeColour ==
    view = "result" =>
        /\ badge = IF HasCI(BadgeText, S_non) THEN "badge-green"
                   ELSE IF HasCI(BadgeText, S_suspect) THEN "badge-amber"
                   ELSE "badge-red"
        /\ BadgeText = S_Glaucoma \o << " " >> \o S_suspect => badge = "badge-amber"
        /\ ~Truthy(fields[1].classification) => badge = "badge-red"
\* "Glaucoma suspect" was rendered with the amber badge
C6_Witness ==
    /\ view = "result"
    /\ fields[1].classification = JStr(S_Glaucoma \o << " " >> \o S_suspect)
    /\ badge = "badge-amber"

\* C7: the requested URL is the base URL without its trailing slashes followed
\* by /predict once: it ends in /predict and the character before is no slash.
C7_OnePredictSuffix ==
    url # None =>
        LET u == url[1]
            stem == SubSeq(u, 1, Len(u) - Len(S_predict))
        IN  /\ EndsWith(u, S_predict)
            /\ stem # << >> => stem[Len(stem)] # "/"
            /\ \E k \in 0..Len(server_url) : server_url = stem \o Slashes(k)
\* a base URL with two trailing slashes was requested
C7_Witness ==
    /\ url # None
    /\ EndsWith(server_url, << "/", "/" >>)
    /\ net # None

\* C8: a script run calls requests.post at most once, and exactly once when the
\* button was pressed with a file selected, a non-empty server URL and the
\* HTTP client present; a response exists only in such a run.
C8_OneRequestPerValidTrigger ==
    /\ posts \in { 0, 1 }
    /\ posts = 1 <=> (analyze /\ uploaded /\ server_url # << >> /\ requests_ok)
    /\ net # None => posts = 1
\* an error outcome after one request: no second request was made
C8_Witness ==
    /\ pc = "idle" /\ view = "error" /\ posts = 1
    /\ net # None /\ net[1].fault # None

FieldPairs ==
    { << "classification", "classification", "final_classification" >>,
      << "detail", "detail", "details" >>,
      << "ratio", "ratio", "cdr" >> }

\* C9 as stated: the first key's value is used whenever the key is present,
\* whatever its value; the second key's only when the first is absent.
C9_FirstPresentWins ==
    (fields # None /\ HasResult) =>
        \A p \in FieldPairs :
            IF ResultObj[p[2]] # Absent
            THEN fields[1][p[1]] = ResultObj[p[2]]
            ELSE fields[1][p[1]] = Get(ResultObj, p[3])
\* C9 amended: the first key's value is used whenever it is present and truthy;
\* when it is absent or falsy (null, false, 0, empty) the second key's value is
\* used, None when that key is absent.
C9_FirstTruthyWins ==
    (fields # None /\ HasResult) =>
        \A p \in FieldPairs :
            LET a == ResultObj[p[2]]
                falsy == \/ a \in { Absent, JNull, JBool(FALSE), JInt(0), JFloat(0) }
                         \/ a.t \in { "str", "list", "dict" } /\ a.s = << >> /\ a.n = 0
            IN  IF falsy
                THEN fields[1][p[1]] = (IF ResultObj[p[3]] = Absent THEN JNull
                                        ELSE ResultObj[p[3]])
                ELSE fields[1][p[1]] = a
\* an empty classification is present, and final_classification is used
C9_Witness ==
    /\ fields # None /\ HasResult
    /\ ResultObj["classification"] = JStr(<< >>)
    /\ ResultObj["final_classification"] = JStr(S_non)
    /\ fields[1].classification = JStr(S_non)

\* http:// or https:// followed by at least a host
WellFormedHttpUrl(s) ==
    \E scheme \in { << "h", "t", "t", "p", ":", "/", "/" >>,
                    << "h", "t", "t", "p", "s", ":", "/", "/" >> } :
        StartsWith(s, scheme) /\ Len(s) > Len(scheme)

\* C10: the annotated image is shown only for a string that is a well-formed
\* http or https URL; for every other value the warning is shown instead.
C10_ImageOnlyIfHttpUrl ==
    view = "result" =>
        LET a == fields[1].annotated_url
            wellformed == a.t = "str" /\ WellFormedHttpUrl(a.s)
        IN  /\ image # None <=> wellformed
            /\ image_warning <=> ~wellformed

====
